---- MODULE Spec2Model ----
(***************************************************************************)
(* Model of oralb_ble/parser.py: the OralB BLE advertisement parser.       *)
(*                                                                         *)
(* The state is one OralBBluetoothDeviceData object (the identity fields   *)
(* its set_* calls write and the measurements it has handed on) together   *)
(* with the last call made on it: its arguments, how it ended, and the     *)
(* result dictionary it built (which the code only logs, line 170).        *)
(* Bytes are integers 0..255, byte strings are sequences of them, and      *)
(* Python's 0-based data[i] is the sequence's element i+1.                 *)
(***************************************************************************)
EXTENDS Integers, Sequences, FiniteSets, TLC

VARIABLES manufacturer, device_type, device_name, title, emitted,
          call, outcome, result

vars == <<manufacturer, device_type, device_name, title, emitted,
          call, outcome, result>>

identity == <<manufacturer, device_type, device_name, title>>

(***************************************************************************)
(* Python values and operators the parser relies on.                       *)
(***************************************************************************)

\* The largest length of a manufacturer payload the model feeds in.
MaxLen == 13

\* The value of an unsigned byte is at most 255 (">BBHBBBB": B is one byte).
MaxByte == 255

Byte == 0..MaxByte

Digits == <<"0", "1", "2", "3", "4", "5", "6", "7", "8", "9">>

\* str(n) for a non-negative integer: its decimal digits.
RECURSIVE str(_)
str(n) == IF n < 10 THEN Digits[n + 1]
          ELSE str(n \div 10) \o Digits[(n % 10) + 1]

\* data[lo:hi] on a byte string: the slice is clamped to the string's length.
Slice(data, lo, hi) ==
    LET top == IF hi < Len(data) THEN hi ELSE Len(data)
    IN  IF lo >= top THEN <<>> ELSE SubSeq(data, lo + 1, top)

\* dict.get(key, default)
DictGet(d, key, default) == IF key \in DOMAIN d THEN d[key] ELSE default

\* Python objects whose hash() is defined; set, list and dict have none.
Hashable(obj) == obj.type \in {"int", "str", "bytes", "tuple", "frozenset"}

\* `key in d` for a dict d with integer keys: the key is hashed first, and an
\* unhashable key raises TypeError whatever the dict holds.
DictContains(d, key) ==
    IF ~Hashable(key) THEN "TypeError"
    ELSE IF key.type = "int" /\ key.value \in DOMAIN d THEN "True"
    ELSE "False"

\* d[key]: hashes the key as well.
DictGetItem(d, key) ==
    IF ~Hashable(key) THEN "TypeError"
    ELSE IF key.type = "int" /\ key.value \in DOMAIN d THEN d[key.value]
    ELSE "KeyError"

(***************************************************************************)
(* Module-level constants of parser.py.                                    *)
(***************************************************************************)

\* The unpack with the 16-bit counter read low byte first ("<BBHBBBB").
UNPACK_BBHBBBB_LittleEndian(b) ==
    [state         |-> b[1],
     pressure      |-> b[2],
     counter       |-> b[4] * 256 + b[3],
     mode          |-> b[5],
     sector        |-> b[6],
     sector_timer  |-> b[7],
     no_of_sectors |-> b[8]]

\* struct.Struct(">BBHBBBB").unpack on 8 bytes: big-endian, H is 16 bits.
UNPACK_BBHBBBB(b) ==
    [state         |-> b[1],
     pressure      |-> b[2],
     counter       |-> b[3] * 256 + b[4],
     mode          |-> b[5],
     sector        |-> b[6],
     sector_timer  |-> b[7],
     no_of_sectors |-> b[8]]

Models == {"IOSerial7", "SmartSeries7000"}

DEVICE_TYPES ==
    [m \in Models |->
       IF m = "IOSerial7"
       THEN [device_type |-> "IO Serial 7",
             modes |-> (0 :> "daily clean" @@ 1 :> "sensitive" @@
                        2 :> "gum care" @@ 3 :> "whiten" @@
                        4 :> "intense" @@ 8 :> "settings")]
       ELSE [device_type |-> "Smart Series 7000",
             modes |-> (0 :> "off" @@ 1 :> "daily clean" @@
                        2 :> "sensitive" @@ 3 :> "massage" @@
                        4 :> "whitening" @@ 5 :> "deep clean" @@
                        6 :> "tongue cleaning" @@ 7 :> "turbo" @@
                        255 :> "unknown")]]

STATES ==
    (0 :> "unknown" @@ 1 :> "initializing" @@ 2 :> "idle" @@ 3 :> "running" @@
     4 :> "charging" @@ 5 :> "setup" @@ 6 :> "flight menu" @@
     8 :> "selection menu" @@ 113 :> "final test" @@ 114 :> "pcb test" @@
     115 :> "sleeping" @@ 116 :> "transport")

PRESSURE == (114 :> "normal" @@ 118 :> "button pressed" @@ 178 :> "high")

\* ORALB_MANUFACTURER = {0x00DC}: a set literal holding the company id.
ORALB_MANUFACTURER == [type |-> "set", value |-> {220}]

(***************************************************************************)
(* bluetooth_data_tools.short_address, as the parser uses it on line 144.  *)
(* An address is held as its ":"-separated parts, each a two-character     *)
(* octet; short_address upper-cases the last two parts and joins them.     *)
(***************************************************************************)

Upper == ("aa" :> "AA" @@ "bb" :> "BB" @@ "cc" :> "CC" @@ "dd" :> "DD" @@
          "ee" :> "EE" @@ "ff" :> "FF" @@ "0a" :> "0A" @@ "1b" :> "1B" @@
          "12" :> "12" @@ "34" :> "34")

short_address(address) ==
    Upper[address[Len(address) - 1]] \o Upper[address[Len(address)]]

(***************************************************************************)
(* OralBBluetoothDeviceData._process_mfr_data, step by step.               *)
(***************************************************************************)

\* The length test as a lower bound only (if msg_length < 11: return).
ValidLength_AtLeast(msg_length) == msg_length >= 11

\* if msg_length != 11: return
ValidLength(msg_length) == msg_length = 11

\* The flag set for every state from 3 up (if state >= 3).
Toothbrush_FromRunning(state) == IF state >= 3 THEN 1 ELSE 0

\* if state == 3: toothbrush 1, else toothbrush 0
Toothbrush(state) == IF state = 3 THEN 1 ELSE 0

\* The signature read one byte early (data[3:6]).
DeviceBytes_OffByOne(data) == Slice(data, 3, 6)

\* device_bytes = data[4:7]
DeviceBytes(data) == Slice(data, 4, 7)

\* b"\x062k" is the three bytes 0x06, 0x32 ("2"), 0x6B ("k").
ModelOf(device_bytes) ==
    IF device_bytes = <<6, 50, 107>> THEN "IOSerial7" ELSE "SmartSeries7000"

\* The mode map chosen before the model is known: always the Smart Series one.
ModesOf_Fixed(model) == DEVICE_TYPES["SmartSeries7000"].modes

\* model_info = DEVICE_TYPES[model]; modes = model_info.modes
ModesOf(model) == DEVICE_TYPES[model].modes

\* name = f"{model_info.device_type} {short_address(address)}"
Name(model, address) ==
    DEVICE_TYPES[model].device_type \o " " \o short_address(address)

\* The sector rule with the two sentinel values taken as one (sector >= 254).
SectorLabel_OneSentinel(sector) ==
    IF sector >= 254 THEN "last sector" ELSE "sector " \o str(sector)

\* if sector == 254 / elif sector == 255 / else
SectorLabel(sector) ==
    IF sector = 254 THEN "last sector"
    ELSE IF sector = 255 THEN "no sector"
    ELSE "sector " \o str(sector)

\* The result dictionary built from an 11-byte payload.
Decode(data) ==
    LET f     == UNPACK_BBHBBBB(Slice(data, 3, 11))
        modes == ModesOf(ModelOf(DeviceBytes(data)))
    IN  ("toothbrush" :> Toothbrush(f.state) @@
         "toothbrush state" :>
             DictGet(STATES, f.state, "unknown state " \o str(f.state)) @@
         "pressure" :>
             DictGet(PRESSURE, f.pressure,
                     "unknown pressure " \o str(f.pressure)) @@
         "counter" :> f.counter @@
         "mode" :> DictGet(modes, f.mode, "unknown mode " \o str(f.mode)) @@
         "sector" :> SectorLabel(f.sector) @@
         "sector timer" :> f.sector_timer @@
         "number of sectors" :> f.no_of_sectors)

\* No result dictionary was built by the call.
NoResult == <<>>

\* The whole method: an early return on a wrong length; otherwise the three
\* set_* calls and the result, which is logged and then dropped. The method
\* has no return statement with a value and never updates a measurement.
process_mfr_data(address, local_name, data) ==
    IF ~ValidLength(Len(data))
    THEN /\ UNCHANGED <<device_type, device_name, title, emitted>>
         /\ result' = NoResult
         /\ outcome' = "return None"
    ELSE LET model == ModelOf(DeviceBytes(data))
             name  == Name(model, address)
         IN  /\ device_type' = DEVICE_TYPES[model].device_type
             /\ device_name' = name
             /\ title' = name
             /\ result' = Decode(data)
             /\ emitted' = emitted
             /\ outcome' = "return None"

\* The whole _start_update: the manufacturer is set first, then the
\* membership test, the lookup and the call of _process_mfr_data.
start_update(service_info) ==
    LET manufacturer_data == service_info.manufacturer_data
        local_name        == service_info.name
        address           == service_info.address
        present == DictContains(manufacturer_data, ORALB_MANUFACTURER)
    IN  /\ manufacturer' = "OralB"
        /\ IF present = "TypeError"
           THEN /\ UNCHANGED <<device_type, device_name, title, emitted>>
                /\ result' = NoResult
                /\ outcome' = "raise TypeError"
           ELSE IF present = "False"
           THEN /\ UNCHANGED <<device_type, device_name, title, emitted>>
                /\ result' = NoResult
                /\ outcome' = "return None"
           ELSE process_mfr_data(
                    address, local_name,
                    DictGetItem(manufacturer_data, ORALB_MANUFACTURER))

(***************************************************************************)
(* The advertisements and payloads the calls are made with.                *)
(***************************************************************************)

\* An 11-byte payload: a 3-byte header and the 8 bytes the unpack reads.
Frame(h, st, pr, c1, c2, mo, se, ti, ns) ==
    h \o <<st, pr, c1, c2, mo, se, ti, ns>>

\* A running IO Series 7 frame (signature 06 32 6B) and a Smart Series frame.
BaseIO == Frame(<<0, 0, 0>>, 3, 6, 50, 107, 1, 0, 30, 4)
BaseSS == Frame(<<2, 3, 1>>, 2, 114, 0, 100, 1, 3, 0, 6)

Headers == {<<0, 0, 0>>, <<2, 3, 1>>}

\* Every combination of a few values of each field; bytes 4..6 run over the
\* signature and its near misses.
GridFrames ==
    {Frame(h, st, pr, c1, c2, mo, 254, 30, 4) :
        h \in Headers, st \in {2, 3}, pr \in {6, 114}, c1 \in {50, 0},
        c2 \in {107, 108}, mo \in {1, 9}}

\* A byte value moved on by k, wrapping at the top of the byte range.
Shift(v, k) == (v + k) % (MaxByte + 1)

\* Frames with the IO Series 7 signature in which the state, mode, sector,
\* sector timer and sector count bytes each take every value 0..255 (kept
\* apart from each other, so that no two fields hold the same value).
SweepIO ==
    {Frame(<<0, 0, 0>>, v, 6, 50, 107, Shift(v, 1), Shift(v, 2),
           Shift(v, 3), Shift(v, 4)) : v \in Byte}

\* The same with the pressure byte taking every value as well: the signature
\* matches in one of these frames only, the others are Smart Series frames.
SweepPressure ==
    {Frame(<<2, 3, 1>>, v, Shift(v, 5), 50, 107, Shift(v, 1), Shift(v, 2),
           Shift(v, 3), Shift(v, 4)) : v \in Byte}

SweepFrames == SweepIO \cup SweepPressure

\* A payload of n bytes: BaseIO cut short, or padded with zero bytes.
Stretch(n) == [i \in 1..n |-> IF i <= 11 THEN BaseIO[i] ELSE 0]

BadLengthFrames == {Stretch(n) : n \in (0..MaxLen) \ {11}}

Addresses == {<<"aa", "bb", "cc", "dd", "ee", "ff">>,
              <<"12", "34", "aa", "bb", "0a", "1b">>}

Names == {"Oral-B Toothbrush", "None"}

\* The arguments of a call of _process_mfr_data.
ProcessInputs ==
    [address : Addresses, local_name : Names, data : GridFrames]
    \cup [address : {<<"aa", "bb", "cc", "dd", "ee", "ff">>},
          local_name : {"Oral-B Toothbrush"},
          data : SweepFrames \cup BadLengthFrames]

\* Payloads under another company's id (0x004C), and under 0x00DC.
OtherPayloads == {<<1, 2, 3>>, BaseIO}
TaggedPayloads == {BaseIO, BaseSS, Stretch(0), Stretch(10), Stretch(12)}

\* service_info.manufacturer_data: a dict from company id to payload.
ManufacturerDatas ==
    {<<>>}
    \cup {(76 :> p) : p \in OtherPayloads}
    \cup {(220 :> f) : f \in TaggedPayloads}
    \cup {(76 :> p @@ 220 :> f) : p \in OtherPayloads, f \in TaggedPayloads}

ServiceInfos ==
    [name : {"Oral-B Toothbrush"}, address : Addresses,
     manufacturer_data : ManufacturerDatas]

(***************************************************************************)
(* The state machine: a fresh object, then any sequence of calls.          *)
(***************************************************************************)

Init ==
    /\ manufacturer = "None"
    /\ device_type = "None"
    /\ device_name = "None"
    /\ title = "None"
    /\ emitted = <<>>
    /\ call = [op |-> "none"]
    /\ outcome = "not called"
    /\ result = NoResult

StartUpdate ==
    \E service_info \in ServiceInfos :
        /\ call' = [op |-> "_start_update", service_info |-> service_info]
        /\ start_update(service_info)

ProcessMfrData ==
    \E inp \in ProcessInputs :
        /\ call' = [op |-> "_process_mfr_data", address |-> inp.address,
                    local_name |-> inp.local_name, data |-> inp.data]
        /\ manufacturer' = manufacturer
        /\ process_mfr_data(inp.address, inp.local_name, inp.data)

Next == StartUpdate \/ ProcessMfrData

Spec == Init /\ [][Next]_vars

(***************************************************************************)
(* Properties.                                                             *)
(***************************************************************************)

\* The last call was _process_mfr_data on a payload of exactly 11 bytes.
Decoded == call.op = "_process_mfr_data" /\ Len(call.data) = 11

\* The step is a call of _start_update on an advertisement whose
\* manufacturer data has no entry for id 0x00DC.
NotOurVendor ==
    /\ call'.op = "_start_update"
    /\ 220 \notin DOMAIN call'.service_info.manufacturer_data

\* Bytes 4..6 of the payload are the IO Series 7 signature 06 32 6B.
IsSignature(data) == data[5] = 6 /\ data[6] = 50 /\ data[7] = 107

SnapshotKeys ==
    {"toothbrush", "toothbrush state", "pressure", "counter", "mode",
     "sector", "sector timer", "number of sectors"}

\* What the last call handed to its caller: the dictionary it returned or,
\* failing that, the last measurement update it made.
Handed ==
    IF outcome = "return result" THEN result
    ELSE IF Len(emitted) > 0 THEN emitted[Len(emitted)]
    ELSE NoResult

\* C1: a call of _start_update on an advertisement that has no entry for
\* vendor id 0x00DC emits no measurement and leaves the manufacturer name,
\* the device type, the device name and the title as they were.
C1_NoSideEffects ==
    [][NotOurVendor =>
         /\ emitted' = emitted
         /\ manufacturer' = manufacturer
         /\ device_type' = device_type
         /\ device_name' = device_name
         /\ title' = title]_vars

\* C2: every call of _start_update completes normally: no exception reaches
\* the caller, whatever the manufacturer data holds.
C2_NoException == call.op = "_start_update" => outcome = "return None"

\* C3: _process_mfr_data on a payload whose length is not 11 returns
\* normally, builds no snapshot, emits nothing and leaves the device type,
\* the device name and the title as they were.
C3_BadLengthSilent ==
    [][(call'.op = "_process_mfr_data" /\ Len(call'.data) # 11) =>
         /\ outcome' = "return None"
         /\ DOMAIN result' = {}
         /\ emitted' = emitted
         /\ device_type' = device_type
         /\ device_name' = device_name
         /\ title' = title]_vars

\* A 12-byte payload was dropped after an earlier frame had set the identity.
C3_Witness ==
    /\ call.op = "_process_mfr_data"
    /\ Len(call.data) = 12
    /\ outcome = "return None"
    /\ DOMAIN result = {}
    /\ device_type = "IO Serial 7"

\* C4: after _process_mfr_data on an 11-byte payload the caller holds a
\* snapshot (returned, or emitted as a measurement update) whose keys are
\* exactly the eight measurement keys.
C4_SnapshotHanded == Decoded => DOMAIN Handed = SnapshotKeys

\* C5: the device type reported for an 11-byte payload is "IO Serial 7"
\* exactly when bytes 4..6 are 06 32 6B and "Smart Series 7000" otherwise,
\* whatever the other bytes, the address, the name and the earlier calls.
C5_ModelBySignature ==
    Decoded =>
        device_type = IF IsSignature(call.data) THEN "IO Serial 7"
                      ELSE "Smart Series 7000"

\* A frame with a non-zero header and state 2 classified as IO Series 7.
C5_Witness ==
    /\ Decoded
    /\ IsSignature(call.data)
    /\ call.data[1] = 2
    /\ call.data[4] = 2
    /\ device_type = "IO Serial 7"

\* C6: the mode label of an 11-byte payload is the entry for its mode code
\* (byte 7) in the mode map of the model its own signature selects, and
\* "unknown mode <code>" when that map has no entry; code 1 is "sensitive"
\* under IOSerial7 and "daily clean" under SmartSeries7000.
C6_ModeByModel ==
    Decoded =>
        LET code  == call.data[8]
            io    == IsSignature(call.data)
            table == DEVICE_TYPES[IF io THEN "IOSerial7"
                                  ELSE "SmartSeries7000"].modes
        IN  /\ result["mode"] = IF code \in DOMAIN table THEN table[code]
                                ELSE "unknown mode " \o str(code)
            /\ code = 1 =>
                   result["mode"] = IF io THEN "sensitive" ELSE "daily clean"
            /\ (code = 200 => result["mode"] = "unknown mode 200")

\* Mode code 1 of an IO Series 7 frame resolved to "sensitive".
C6_Witness ==
    /\ Decoded
    /\ IsSignature(call.data)
    /\ call.data[8] = 1
    /\ result["mode"] = "sensitive"

\* C7: the toothbrush measurement built from an 11-byte payload is 1 when
\* the state byte (byte 3) is 3 and 0 for every other state value.
C7_ToothbrushIffRunning ==
    Decoded => result["toothbrush"] = IF call.data[4] = 3 THEN 1 ELSE 0

\* A frame in state 3 gave toothbrush 1.
C7_Witness == Decoded /\ call.data[4] = 3 /\ result["toothbrush"] = 1

\* C8: the sector label built from an 11-byte payload is "last sector" for
\* sector byte 254, "no sector" for 255 and "sector <v>" in decimal for
\* every other value v.
C8_SectorLabel ==
    Decoded =>
        LET v == call.data[9]
        IN  /\ v = 254 => result["sector"] = "last sector"
            /\ v = 255 => result["sector"] = "no sector"
            /\ v < 254 => result["sector"] = "sector " \o str(v)
            /\ v = 0 => result["sector"] = "sector 0"
            /\ v = 253 => result["sector"] = "sector 253"

\* Sector byte 255 gave "no sector".
C8_Witness == Decoded /\ call.data[9] = 255 /\ result["sector"] = "no sector"

\* C9: after _start_update on an advertisement whose 0x00DC payload has 11
\* bytes, the manufacturer is "OralB", the device type is the label of the
\* model the signature selects, and the device name and the title are both
\* that label, a space and the shortened address.
C9_IdentityReported ==
    LET si == call.service_info
        md == si.manufacturer_data
    IN  (call.op = "_start_update" /\ 220 \in DOMAIN md /\ Len(md[220]) = 11)
        => LET label == IF IsSignature(md[220]) THEN "IO Serial 7"
                        ELSE "Smart Series 7000"
               name  == label \o " " \o short_address(si.address)
           IN  /\ manufacturer = "OralB"
               /\ device_type = label
               /\ device_name = name
               /\ title = name

\* C10: an 11-byte payload is classified IO Series 7 exactly when its
\* decoded pressure is 6 (label "unknown pressure 6") and its decoded
\* counter is 12907; a frame with a known pressure label is a Smart Series.
C10_SignatureIsPressureAndCounter ==
    Decoded =>
        LET io == device_type = "IO Serial 7"
        IN  /\ io <=> (/\ result["pressure"] = "unknown pressure 6"
                       /\ result["counter"] = 12907)
            /\ io <=> (call.data[5] = 6 /\ result["counter"] = 12907)
            /\ result["pressure"] \in {"normal", "button pressed", "high"}
                   => device_type = "Smart Series 7000"

\* An IO Series 7 frame with counter 12907 and pressure code 6.
C10_Witness ==
    /\ Decoded
    /\ device_type = "IO Serial 7"
    /\ result["counter"] = 12907
    /\ result["pressure"] = "unknown pressure 6"

====
